---- MODULE Spec2Model ----
(***************************************************************************)
(* Model of the connection registry and fan-out broadcast core of the      *)
(* clipboard synchronisation server (src/app.py).                          *)
(*                                                                         *)
(* Two threads share connected_clients and last_clipboard:                 *)
(*  - the server thread runs one websocket_endpoint coroutine per          *)
(*    connection on one asyncio loop; coroutines interleave only at an     *)
(*    await (variable running names the coroutine that holds the loop);    *)
(*  - the monitor thread runs monitor() on its own loop and interleaves    *)
(*    with the server thread between any two of its statements.            *)
(***************************************************************************)
EXTENDS Integers, Sequences, FiniteSets, TLC

\* ---------------------------------------------------------------- bounds
MaxMsgs == 1      \* inbound payloads the peers send in total
MaxLocal == 1     \* local clipboard changes made by the desktop user
MaxDrops == 1     \* peers whose transport breaks
MaxEvents == 2    \* inputs of all three kinds together
MaxUpdates == 2   \* clipboard updates the peers send when three devices are connected

\* ------------------------------------------------------------ universe
Conns == {"w1", "w2", "w3", "w4"}          \* WebSocket objects
DevOf == [w1 |-> "d1", w2 |-> "d1", w3 |-> "d2", w4 |-> "d3"]
Ids == {"d1", "d2", "d3"}                  \* device_id path segments
Texts == {"a", "b"}                       \* texts peers send
LocalTexts == {"a"}                        \* texts the desktop user copies
NoTask == "none"
DESKTOP == "desktop"

\* ------------------------------------------------------------ messages
UpdateMsg(t, src) == [kind |-> "clipboard_update", text |-> t, source |-> src]
AckMsg == [kind |-> "success", text |-> "Clipboard updated", source |-> ""]
PairingResponse == [kind |-> "pairing_response", text |-> "Pairing successful", source |-> ""]

\* payloads a peer can put on the wire (data of receive_text)
RawText(t) == [form |-> "text", type |-> "", hasText |-> FALSE, text |-> t]
JsonScalar == [form |-> "scalar", type |-> "", hasText |-> FALSE, text |-> ""]
JsonObject(ty, ht, t) == [form |-> "object", type |-> ty, hasText |-> ht, text |-> t]
Payloads ==
    {RawText(t) : t \in Texts \cup {""}}
    \cup {JsonScalar}
    \cup {JsonObject("pairing_request", FALSE, "")}
    \cup {JsonObject("clipboard_update", TRUE, t) : t \in Texts \cup {""}}
    \cup {JsonObject("clipboard_update", FALSE, "")}
    \cup {JsonObject("other", TRUE, t) : t \in Texts \cup {""}}
    \cup {JsonObject("other", FALSE, "")}

\* json.loads: raises JSONDecodeError on text that is not JSON, returns a
\* dict for a JSON object and a non-dict value (int, str, list, None) else
JsonLoads(data) ==
    IF data.form = "text" THEN [decodeError |-> TRUE, isDict |-> FALSE]
    ELSE [decodeError |-> FALSE, isDict |-> (data.form = "object")]

\* ------------------------------------------------------ dict operations
\* connected_clients is a dict: a sequence of entries in insertion order
DictKeys(d) == {d[i].id : i \in 1..Len(d)}
DictIndex(d, k) == CHOOSE i \in 1..Len(d) : d[i].id = k
DictGet(d, k) == d[DictIndex(d, k)].ws
DictSet(d, k, w) ==
    IF k \in DictKeys(d)
    THEN [d EXCEPT ![DictIndex(d, k)] = [id |-> k, ws |-> w]]
    ELSE Append(d, [id |-> k, ws |-> w])
RemoveAt(d, i) == [j \in 1..(Len(d) - 1) |-> IF j < i THEN d[j] ELSE d[j + 1]]
\* variant for fault injection: dict.pop(k) without a default raises
\* KeyError for an absent key
DictPopNoDefault(d, k) ==
    IF k \in DictKeys(d)
    THEN [dict |-> RemoveAt(d, DictIndex(d, k)), raised |-> FALSE]
    ELSE [dict |-> d, raised |-> TRUE]
\* dict.pop(k, None): removes k if present, never raises
DictPop(d, k) ==
    IF k \in DictKeys(d)
    THEN [dict |-> RemoveAt(d, DictIndex(d, k)), raised |-> FALSE]
    ELSE [dict |-> d, raised |-> FALSE]

\* dict iterator: pos entries are behind it, used is the size when it was
\* created, len the number of entries it still expects
NoIter == [pos |-> 0, used |-> 0, len |-> 0]
NewIter(d) == [pos |-> 0, used |-> Len(d), len |-> Len(d)]
IterNext(d, it) ==
    IF it.used # Len(d) THEN [out |-> "RuntimeError", it |-> NoIter]
    ELSE IF it.pos >= Len(d) THEN [out |-> "StopIteration", it |-> NoIter]
    ELSE IF it.len = 0 THEN [out |-> "RuntimeError", it |-> NoIter]
    ELSE [out |-> "item", it |-> [it EXCEPT !.pos = @ + 1, !.len = @ - 1]]
\* an entry removed behind the iterator moves the iterator back with it
IterAfterPop(d, k, it) ==
    IF k \in DictKeys(d) /\ DictIndex(d, k) <= it.pos
    THEN [it EXCEPT !.pos = @ - 1] ELSE it

\* variant for fault injection: a gate that only tests `content`
IsNewNonEmpty(c, last) == c # ""
\* the change-detection gate: `content and content != last_clipboard`
IsNew(c, last) == c # "" /\ c # last

VARIABLES
    connected_clients,   \* the registry dict
    last_clipboard,      \* the last seen clipboard value
    osClip,              \* the clipboard backend behind pyperclip
    appInstance,         \* ClipboardSyncApp._instance is set
    application_state,   \* per WebSocket: CONNECTING / CONNECTED / DISCONNECTED
    peerOK,              \* per WebSocket: the transport to the peer works
    pc,                  \* per websocket_endpoint call: where it is
    running,             \* the coroutine that holds the server loop
    content,             \* per call: local variable content (data at line 109)
    iter,                \* per call: the iterator of the loop at line 82
    expected,            \* per call: the targets registered when the loop started
    failed,              \* per call: the targets whose send raised in this loop
    mon,                 \* monitor(): pc, content, iterator, current socket, targets
    inbox,               \* per WebSocket: messages delivered to the peer
    statusLog,           \* per call: status notifications handed to GLib
    exitCause,           \* per call: the exception that ended it
    budget,              \* inputs the environment may still make
    peers                \* the sockets that connect in this run

vars == <<connected_clients, last_clipboard, osClip, appInstance,
          application_state, peerOK, pc, running, content, iter, expected,
          failed, mon, inbox, statusLog, exitCause, budget, peers>>

clipVars == <<last_clipboard, osClip>>
envVars == <<appInstance, peerOK, budget, peers>>
callVars == <<pc, running, content, iter, expected, failed, exitCause>>

MonIdle == [pc |-> "read", content |-> "", it |-> NoIter, cur |-> NoTask,
            expected |-> {}, failed |-> {}]

InitCommon ==
    /\ connected_clients = <<>>
    /\ last_clipboard = ""
    /\ osClip = ""
    /\ application_state = [w \in Conns |-> "CONNECTING"]
    /\ peerOK = [w \in Conns |-> TRUE]
    /\ pc = [w \in Conns |-> "idle"]
    /\ running = NoTask
    /\ content = [w \in Conns |-> ""]
    /\ iter = [w \in Conns |-> NoIter]
    /\ expected = [w \in Conns |-> {}]
    /\ failed = [w \in Conns |-> {}]
    /\ mon = MonIdle
    /\ inbox = [w \in Conns |-> <<>>]
    /\ statusLog = [w \in Conns |-> {}]
    /\ exitCause = [w \in Conns |-> "none"]

\* main() has built the window; two devices, one of them connecting twice
Init ==
    /\ InitCommon
    /\ appInstance = TRUE
    /\ budget = [msgs |-> MaxMsgs, local |-> MaxLocal, drops |-> MaxDrops,
                 events |-> MaxEvents]
    /\ peers = {"w1", "w2", "w3"}

\* ------------------------------------------------------------- helpers
Registered(w) ==
    /\ DevOf[w] \in DictKeys(connected_clients)
    /\ DictGet(connected_clients, DevOf[w]) = w
CanRun(w) == running \in {NoTask, w}
\* variant for fault injection: a send that reaches every socket
DeliverToAll(box, w, m) == [x \in Conns |-> Append(box[x], m)]
Deliver(box, w, m) == [box EXCEPT ![w] = Append(@, m)]
\* connected_clients.pop(k, None), seen by every live dict iterator
PopEffect(k, self) ==
    /\ connected_clients' = DictPop(connected_clients, k).dict
    /\ iter' = [w \in Conns |->
                  IF w = self THEN NoIter
                  ELSE IterAfterPop(connected_clients, k, iter[w])]

\* variant for fault injection: the cleanup placed in the handler of
\* WebSocketDisconnect instead of a finally block
CleanupOnDisconnectOnly(self, cause) ==
    /\ IF cause = "WebSocketDisconnect"
       THEN /\ PopEffect(DevOf[self], self)
            /\ mon' = [mon EXCEPT !.it = IterAfterPop(connected_clients, DevOf[self], @)]
            /\ statusLog' = [statusLog EXCEPT ![self] =
                                IF appInstance THEN @ \cup {"Disconnected"} ELSE @]
       ELSE /\ iter' = [iter EXCEPT ![self] = NoIter]
            /\ UNCHANGED <<connected_clients, mon, statusLog>>
    /\ pc' = [pc EXCEPT ![self] = "closed"]
    /\ exitCause' = [exitCause EXCEPT ![self] = cause]
    /\ content' = [content EXCEPT ![self] = ""]
    /\ expected' = [expected EXCEPT ![self] = {}]
    /\ failed' = [failed EXCEPT ![self] = {}]
    /\ running' = NoTask

\* the finally block of websocket_endpoint (lines 118-124), reached from
\* except WebSocketDisconnect (114) and except Exception (116)
Finally(self, cause) ==
    /\ PopEffect(DevOf[self], self)
    /\ mon' = [mon EXCEPT !.it = IterAfterPop(connected_clients, DevOf[self], @)]
    /\ statusLog' = [statusLog EXCEPT ![self] =
                        IF appInstance THEN @ \cup {"Disconnected"} ELSE @]
    /\ pc' = [pc EXCEPT ![self] =
                IF DictPop(connected_clients, DevOf[self]).raised
                THEN "crashed" ELSE "closed"]
    /\ exitCause' = [exitCause EXCEPT ![self] = cause]
    /\ content' = [content EXCEPT ![self] = ""]
    /\ expected' = [expected EXCEPT ![self] = {}]
    /\ failed' = [failed EXCEPT ![self] = {}]
    /\ running' = NoTask

\* the endpoint raises before line 55: nothing was registered, no cleanup
Abort(self, cause) ==
    /\ pc' = [pc EXCEPT ![self] = "failed"]
    /\ exitCause' = [exitCause EXCEPT ![self] = cause]
    /\ running' = NoTask

\* the call moves to position p; hold says whether it keeps the loop
Goto(self, p, hold) ==
    /\ pc' = [pc EXCEPT ![self] = p]
    /\ running' = IF hold THEN self ELSE NoTask

\* ------------------------------------------------- websocket_endpoint
\* line 40: `if device_id in connected_clients`, else straight to accept
RequestConnect(self) ==
    /\ pc[self] = "idle"
    /\ self \in peers
    /\ CanRun(self)
    /\ IF DevOf[self] \in DictKeys(connected_clients)
       THEN Goto(self, "close_prev", TRUE)
       ELSE Goto(self, "await_accept", FALSE)
    /\ UNCHANGED <<connected_clients, clipVars, envVars, application_state,
                   content, iter, expected, failed, exitCause, mon, inbox, statusLog>>

\* line 42: `await connected_clients[device_id].close()`.  The lookup raises
\* KeyError when the monitor thread popped the entry since line 40; close()
\* raises when a close was already sent on that socket, and may raise when
\* its peer is gone.  An exception here leaves the endpoint before accept.
ClosePrev(self) ==
    /\ pc[self] = "close_prev"
    /\ CanRun(self)
    /\ IF DevOf[self] \notin DictKeys(connected_clients)
       THEN Abort(self, "KeyError") /\ UNCHANGED application_state
       ELSE LET old == DictGet(connected_clients, DevOf[self]) IN
            IF application_state[old] # "CONNECTED"
            THEN Abort(self, "CloseError") /\ UNCHANGED application_state
            ELSE /\ application_state' = [application_state EXCEPT ![old] = "DISCONNECTED"]
                 /\ \/ Goto(self, "await_accept", FALSE) /\ UNCHANGED exitCause
                    \/ ~peerOK[old] /\ Abort(self, "CloseError")
    /\ UNCHANGED <<connected_clients, clipVars, envVars, content, iter,
                   expected, failed, mon, inbox, statusLog>>

\* lines 44-53: accept returns, the socket is registered under device_id
\* and "Connected" is handed to the window when there is one
AcceptDone(self) ==
    /\ pc[self] = "await_accept"
    /\ CanRun(self)
    /\ IF peerOK[self]
       THEN /\ application_state' = [application_state EXCEPT ![self] = "CONNECTED"]
            /\ connected_clients' = DictSet(connected_clients, DevOf[self], self)
            /\ statusLog' = [statusLog EXCEPT ![self] =
                                IF appInstance THEN @ \cup {"Connected"} ELSE @]
            /\ Goto(self, "receiving", FALSE)
            /\ UNCHANGED exitCause
       ELSE /\ Abort(self, "AcceptError")
            /\ UNCHANGED <<application_state, connected_clients, statusLog>>
    /\ UNCHANGED <<clipVars, envVars, content, iter, expected, failed, mon, inbox>>

\* line 57 raises WebSocketDisconnect: the peer closed, the transport
\* broke, or the server closed this socket (line 42 of a later call)
ReceiveFails(self) ==
    /\ pc[self] = "receiving"
    /\ CanRun(self)
    /\ ~peerOK[self] \/ application_state[self] = "DISCONNECTED"
    /\ Finally(self, "WebSocketDisconnect")
    /\ UNCHANGED <<clipVars, envVars, application_state, inbox>>

\* lines 57-75, 100-101, 107: one payload is received, parsed and
\* dispatched; content is the text the gate will look at
Receive(self, data) ==
    /\ pc[self] = "receiving"
    /\ CanRun(self)
    /\ peerOK[self] /\ application_state[self] = "CONNECTED"
    /\ budget.msgs > 0 /\ budget.events > 0
    /\ budget' = [budget EXCEPT !.msgs = @ - 1, !.events = @ - 1]
    /\ LET message == JsonLoads(data) IN
       IF message.decodeError
       THEN \* line 107: except json.JSONDecodeError, data is the text
            /\ Goto(self, "raw_gate", TRUE)
            /\ content' = [content EXCEPT ![self] = data.text]
            /\ UNCHANGED <<connected_clients, iter, expected, failed, exitCause, mon,
                           statusLog, inbox>>
       ELSE IF ~message.isDict
       THEN \* line 64: message.get raises AttributeError, caught at 116
            /\ Finally(self, "AttributeError")
            /\ UNCHANGED inbox
       ELSE IF data.type = "pairing_request"
       THEN \* lines 64-71
            /\ inbox' = Deliver(inbox, self, PairingResponse)
            /\ UNCHANGED <<connected_clients, callVars, mon, statusLog>>
       ELSE IF data.type = "clipboard_update" /\ data.hasText
       THEN \* lines 74-75
            /\ Goto(self, "upd_gate", TRUE)
            /\ content' = [content EXCEPT ![self] = data.text]
            /\ UNCHANGED <<connected_clients, iter, expected, failed, exitCause, mon,
                           statusLog, inbox>>
       ELSE IF data.hasText
       THEN \* lines 100-101: fallback for an object that carries text
            /\ Goto(self, "fb_gate", TRUE)
            /\ content' = [content EXCEPT ![self] = data.text]
            /\ UNCHANGED <<connected_clients, iter, expected, failed, exitCause, mon,
                           statusLog, inbox>>
       ELSE \* an object without type and text: nothing to do
            UNCHANGED <<connected_clients, callVars, mon, statusLog, inbox>>
    /\ UNCHANGED <<clipVars, appInstance, peerOK, peers, application_state>>

\* back to line 57 after a payload is dealt with
Handled(self) ==
    /\ Goto(self, "receiving", FALSE)
    /\ content' = [content EXCEPT ![self] = ""]
    /\ iter' = [iter EXCEPT ![self] = NoIter]
    /\ expected' = [expected EXCEPT ![self] = {}]
    /\ failed' = [failed EXCEPT ![self] = {}]
    /\ UNCHANGED <<connected_clients, exitCause, mon, statusLog>>

\* lines 93-97: the acknowledgment to the sender, then back to line 57;
\* a send on a closed or broken socket raises to line 116
SendAck(self) ==
    IF application_state[self] = "CONNECTED" /\ peerOK[self]
    THEN inbox' = Deliver(inbox, self, AckMsg) /\ Handled(self)
    ELSE Finally(self, "SendError") /\ UNCHANGED inbox

\* lines 76, 102, 109: `if content and content != last_clipboard`
Gate(self) ==
    /\ pc[self] \in {"upd_gate", "fb_gate", "raw_gate"}
    /\ CanRun(self)
    /\ IF IsNew(content[self], last_clipboard)
       THEN /\ Goto(self, CASE pc[self] = "upd_gate" -> "upd_copy"
                            [] pc[self] = "fb_gate" -> "fb_copy"
                            [] OTHER -> "raw_copy", TRUE)
            /\ UNCHANGED <<connected_clients, content, iter, expected, failed,
                           exitCause, mon, statusLog, inbox>>
       ELSE IF pc[self] = "upd_gate"
            THEN SendAck(self)
            ELSE Handled(self) /\ UNCHANGED inbox
    /\ UNCHANGED <<clipVars, envVars, application_state>>

\* lines 77, 103, 110: pyperclip.copy(content); a backend failure raises
\* past the inner try (it only catches JSONDecodeError) to line 116
Copy(self) ==
    /\ pc[self] \in {"upd_copy", "fb_copy", "raw_copy"}
    /\ CanRun(self)
    /\ \/ /\ osClip' = content[self]
          /\ Goto(self, CASE pc[self] = "upd_copy" -> "upd_set"
                          [] pc[self] = "fb_copy" -> "fb_set"
                          [] OTHER -> "raw_set", TRUE)
          /\ UNCHANGED <<connected_clients, content, iter, expected, failed,
                         exitCause, mon, statusLog>>
       \/ /\ Finally(self, "BackendError")
          /\ UNCHANGED osClip
    /\ UNCHANGED <<last_clipboard, envVars, application_state, inbox>>

\* variant for fault injection: a loop that does not compare ids
IsTargetAnyId(self, e) == application_state[e.ws] = "CONNECTED"

\* the peers the loop at line 82 sends to (line 83)
IsTarget(self, e) ==
    e.id # DevOf[self] /\ application_state[e.ws] = "CONNECTED"

\* lines 78-82 (and 104, 111): last_clipboard = content; for a
\* clipboard_update the loop over connected_clients.items() starts
SetLast(self) ==
    /\ pc[self] \in {"upd_set", "fb_set", "raw_set"}
    /\ CanRun(self)
    /\ last_clipboard' = content[self]
    /\ IF pc[self] = "upd_set"
       THEN /\ Goto(self, "bcast", TRUE)
            /\ iter' = [iter EXCEPT ![self] = NewIter(connected_clients)]
            /\ expected' = [expected EXCEPT ![self] =
                   {w \in Conns : /\ Registered(w)
                                  /\ IsTarget(self, [id |-> DevOf[w], ws |-> w])}]
            /\ UNCHANGED <<connected_clients, content, failed, exitCause, mon,
                           statusLog>>
       ELSE Handled(self)
    /\ UNCHANGED <<osClip, envVars, application_state, inbox>>

\* lines 82-97: one round of the broadcast loop, up to the await of its
\* send; when the iterator is exhausted the acknowledgment is sent
BcastNext(self) ==
    /\ pc[self] = "bcast"
    /\ CanRun(self)
    /\ LET r == IterNext(connected_clients, iter[self]) IN
       CASE r.out = "RuntimeError" ->
              \* dictionary changed size during iteration: caught at 116
              Finally(self, "RuntimeError") /\ UNCHANGED inbox
         [] r.out = "StopIteration" ->
              SendAck(self)
         [] OTHER ->
              LET e == connected_clients[iter[self].pos + 1] IN
              /\ iter' = [iter EXCEPT ![self] = r.it]
              /\ IF IsTarget(self, e)
                 THEN /\ IF peerOK[e.ws]
                         THEN /\ inbox' = Deliver(inbox, e.ws,
                                     UpdateMsg(content[self], DevOf[self]))
                              /\ UNCHANGED failed
                         ELSE \* lines 90-91: the exception is logged only
                              /\ failed' = [failed EXCEPT ![self] = @ \cup {e.ws}]
                              /\ UNCHANGED inbox
                      /\ Goto(self, "bcast", FALSE)
                 ELSE /\ Goto(self, "bcast", TRUE)
                      /\ UNCHANGED <<inbox, failed>>
              /\ UNCHANGED <<connected_clients, content, expected, exitCause,
                             mon, statusLog>>
    /\ UNCHANGED <<clipVars, envVars, application_state>>

\* ------------------------------------------------------------ monitor()
\* line 132: pyperclip.paste(), or its failure caught at line 150
MonRead ==
    /\ mon.pc = "read"
    /\ \/ mon' = [mon EXCEPT !.pc = "check", !.content = osClip]
       \/ mon' = MonIdle
    /\ UNCHANGED <<connected_clients, clipVars, envVars, callVars,
                   application_state, inbox, statusLog>>

\* line 133; a rejected value ends the tick (line 153, then line 130)
MonCheck ==
    /\ mon.pc = "check"
    /\ mon' = IF IsNew(mon.content, last_clipboard)
              THEN [mon EXCEPT !.pc = "set"]
              ELSE MonIdle
    /\ UNCHANGED <<connected_clients, clipVars, envVars, callVars,
                   application_state, inbox, statusLog>>

\* lines 134-137: last_clipboard = content and the loop starts
MonSet ==
    /\ mon.pc = "set"
    /\ last_clipboard' = mon.content
    /\ mon' = [mon EXCEPT !.pc = "loop", !.it = NewIter(connected_clients),
                          !.expected = {w \in Conns :
                              Registered(w) /\ application_state[w] = "CONNECTED"}]
    /\ UNCHANGED <<connected_clients, osClip, envVars, callVars,
                   application_state, inbox, statusLog>>

\* variant for fault injection: the loop without the try of lines 131-151,
\* so that the RuntimeError of the iterator ends monitor()
MonStepUncaught ==
    /\ mon.pc = "loop"
    /\ LET r == IterNext(connected_clients, mon.it) IN
       IF r.out = "RuntimeError"
       THEN mon' = [MonIdle EXCEPT !.pc = "dead"] /\ UNCHANGED inbox
       ELSE IF r.out = "StopIteration"
       THEN mon' = MonIdle /\ UNCHANGED inbox
       ELSE LET ws == connected_clients[mon.it.pos + 1].ws IN
            IF application_state[ws] # "CONNECTED"
            THEN mon' = [mon EXCEPT !.it = r.it] /\ UNCHANGED inbox
            ELSE IF peerOK[ws]
            THEN /\ inbox' = Deliver(inbox, ws, UpdateMsg(mon.content, DESKTOP))
                 /\ mon' = [mon EXCEPT !.it = r.it]
            ELSE /\ mon' = [mon EXCEPT !.it = r.it, !.pc = "evict", !.cur = ws,
                                       !.failed = @ \cup {ws}]
                 /\ UNCHANGED inbox
    /\ UNCHANGED <<connected_clients, clipVars, envVars, callVars,
                   application_state, statusLog>>

\* lines 137-146: one round of the loop: the next entry and the send to
\* it; the end of the loop or the RuntimeError of a dict that changed size
\* (caught at line 150) ends the tick
MonStep ==
    /\ mon.pc = "loop"
    /\ LET r == IterNext(connected_clients, mon.it) IN
       IF r.out # "item"
       THEN mon' = MonIdle /\ UNCHANGED inbox
       ELSE LET ws == connected_clients[mon.it.pos + 1].ws IN
            IF application_state[ws] # "CONNECTED"
            THEN mon' = [mon EXCEPT !.it = r.it] /\ UNCHANGED inbox
            ELSE IF peerOK[ws]
            THEN /\ inbox' = Deliver(inbox, ws, UpdateMsg(mon.content, DESKTOP))
                 /\ mon' = [mon EXCEPT !.it = r.it]
            ELSE /\ mon' = [mon EXCEPT !.it = r.it, !.pc = "evict", !.cur = ws,
                                       !.failed = @ \cup {ws}]
                 /\ UNCHANGED inbox
    /\ UNCHANGED <<connected_clients, clipVars, envVars, callVars,
                   application_state, statusLog>>

\* lines 146-148: the failed send is logged and device_id is popped
MonEvict ==
    /\ mon.pc = "evict"
    /\ PopEffect(DevOf[mon.cur], NoTask)
    /\ mon' = [mon EXCEPT !.pc = "loop", !.cur = NoTask,
                          !.it = IterAfterPop(connected_clients, DevOf[mon.cur], @)]
    /\ UNCHANGED <<clipVars, envVars, pc, running, content, expected, failed,
                   exitCause, application_state, inbox, statusLog>>

\* --------------------------------------------------------- environment
\* the transport to a peer breaks (peer closed, network lost)
PeerDrop(w) ==
    /\ pc[w] \notin {"idle", "closed", "crashed", "failed"}
    /\ peerOK[w]
    /\ budget.drops > 0 /\ budget.events > 0
    /\ peerOK' = [peerOK EXCEPT ![w] = FALSE]
    /\ budget' = [budget EXCEPT !.drops = @ - 1, !.events = @ - 1]
    /\ UNCHANGED <<connected_clients, clipVars, appInstance, peers, callVars,
                   application_state, mon, inbox, statusLog>>

\* the desktop user copies a text
LocalCopy(t) ==
    /\ budget.local > 0 /\ budget.events > 0
    /\ osClip' = t
    /\ budget' = [budget EXCEPT !.local = @ - 1, !.events = @ - 1]
    /\ UNCHANGED <<connected_clients, last_clipboard, appInstance, peerOK,
                   peers, callVars, application_state, mon, inbox, statusLog>>

\* main() line 313: the window is constructed after both threads started
AppCreated ==
    /\ ~appInstance
    /\ appInstance' = TRUE
    /\ UNCHANGED <<connected_clients, clipVars, peerOK, budget, peers,
                   callVars, application_state, mon, inbox, statusLog>>

Next ==
    \/ \E w \in Conns : RequestConnect(w)
    \/ \E w \in Conns : ClosePrev(w)
    \/ \E w \in Conns : AcceptDone(w)
    \/ \E w \in Conns : ReceiveFails(w)
    \/ \E w \in Conns : \E data \in Payloads : Receive(w, data)
    \/ \E w \in Conns : Gate(w)
    \/ \E w \in Conns : Copy(w)
    \/ \E w \in Conns : SetLast(w)
    \/ \E w \in Conns : BcastNext(w)
    \/ MonRead
    \/ MonCheck
    \/ MonSet
    \/ MonStep
    \/ MonEvict
    \/ \E w \in Conns : PeerDrop(w)
    \/ \E t \in LocalTexts : LocalCopy(t)

Spec == Init /\ [][Next]_vars

\* the window is constructed while the server already accepts connections
\* (main() starts both threads at lines 309-310, the window at line 313)
InitStartup ==
    /\ InitCommon
    /\ appInstance = FALSE
    /\ budget = [msgs |-> MaxMsgs, local |-> MaxLocal, drops |-> MaxDrops,
                 events |-> MaxEvents]
    /\ peers = {"w1", "w2"}

NextStartup == Next \/ AppCreated

SpecStartup == InitStartup /\ [][NextStartup]_vars

\* ---------------------------------------------------------------- claims
Has(seq, m) == \E i \in 1..Len(seq) : seq[i] = m
Updates(seq) == SelectSeq(seq, LAMBDA m : m.kind = "clipboard_update")
\* the endpoint call is past line 45 and not over
InSession(w) == pc[w] \notin {"idle", "close_prev", "await_accept", "failed",
                              "closed", "crashed"}
\* the socket is open on both sides
Healthy(w) == peerOK[w] /\ application_state[w] = "CONNECTED"
UpdStates == {"upd_gate", "upd_copy", "upd_set", "bcast"}
GateStates == {"upd_gate", "fb_gate", "raw_gate"}
Ended == {"closed", "crashed"}

\* C1 (as claimed): when a connection is registered under an id the registry
\* already holds, the earlier one has been closed, and the newly registered
\* connection stays the registry's entry for the id for as long as it is live.
C1_ReplaceOnDuplicate ==
    [][\A w \in Conns :
          /\ (pc[w] = "await_accept" /\ pc'[w] = "receiving"
                /\ DevOf[w] \in DictKeys(connected_clients))
               => application_state[DictGet(connected_clients, DevOf[w])] # "CONNECTED"
          /\ (Registered(w) /\ InSession(w)' /\ Healthy(w)')
               => Registered(w)']_vars

\* C2 (as claimed): when a broadcast loop in which the send to a target
\* failed ends, every target that is still registered and healthy got the
\* update, the target whose send failed is evicted, and a healthy sender is
\* still in its session.
C2_FaultIsolation ==
    [][/\ \A w \in Conns :
            (pc[w] = "bcast" /\ pc'[w] # "bcast" /\ Healthy(w) /\ failed[w] # {}) =>
               /\ pc'[w] = "receiving"
               /\ \A t \in expected[w] :
                     (Healthy(t) /\ Registered(t))
                        => Has(inbox'[t], UpdateMsg(content[w], DevOf[w]))
               /\ \A t \in failed[w] : ~Registered(t)'
       /\ (mon.pc = "loop" /\ mon'.pc = "read" /\ mon.failed # {}) =>
             /\ \A t \in mon.expected :
                   (Healthy(t) /\ Registered(t))
                      => Has(inbox'[t], UpdateMsg(mon.content, DESKTOP))
             /\ \A t \in mon.failed : ~Registered(t)']_vars

\* C3: no socket is ever sent a clipboard_update whose source is the device
\* id it is registered under; the sender of an update only gets the
\* acknowledgment.
C3_NoSelfEcho ==
    \A w \in Conns : \A i \in 1..Len(inbox[w]) :
        inbox[w][i].kind = "clipboard_update" => inbox[w][i].source # DevOf[w]

C3_Witness ==
    \E w, t \in Conns :
        /\ DevOf[t] # DevOf[w]
        /\ pc[w] = "receiving" /\ Has(inbox[w], AckMsg)
        /\ \E x \in Texts : Has(inbox[t], UpdateMsg(x, DevOf[w]))

\* C4: a submitted value that is empty or equal to last_clipboard is a
\* no-op: the gate sends the handler (or the monitor) back without a write
\* to last_clipboard or the clipboard backend and without a clipboard_update
\* to any peer; and a loop only starts once last_clipboard holds the value,
\* so the same value submitted again next is rejected.
C4_GateNoOp ==
    [][/\ \A w \in Conns :
            /\ (pc[w] \in GateStates /\ pc'[w] # pc[w]
                  /\ (content[w] = "" \/ content[w] = last_clipboard))
                 => /\ pc'[w] \in {"receiving", "closed"}
                    /\ last_clipboard' = last_clipboard
                    /\ osClip' = osClip
                    /\ \A t \in Conns : Updates(inbox'[t]) = Updates(inbox[t])
            /\ (pc[w] # "bcast" /\ pc'[w] = "bcast")
                 => last_clipboard' = content[w]
       /\ (mon.pc = "check" /\ mon'.pc # "check"
             /\ (mon.content = "" \/ mon.content = last_clipboard))
            => /\ mon'.pc = "read"
               /\ last_clipboard' = last_clipboard
               /\ \A t \in Conns : Updates(inbox'[t]) = Updates(inbox[t])
       /\ (mon.pc = "set" /\ mon'.pc = "loop")
            => last_clipboard' = mon.content]_vars

C4_Witness ==
    \E w, t \in Conns :
        /\ DevOf[t] # DevOf[w] /\ Registered(t) /\ Healthy(t)
        /\ pc[w] = "upd_gate"
        /\ content[w] # "" /\ content[w] = last_clipboard

\* C5 (as claimed): the handling of a clipboard_update that passed the gate
\* ends, for a healthy sender, back in the receive loop with last_clipboard
\* set, the acknowledgment sent, and the update delivered to every other peer
\* that is still registered and healthy.
C5_AcceptedUpdate ==
    [][\A w \in Conns :
          (pc[w] \in {"upd_copy", "upd_set", "bcast"}
             /\ pc'[w] \notin {"upd_copy", "upd_set", "bcast"} /\ Healthy(w)) =>
             /\ pc[w] = "bcast" /\ pc'[w] = "receiving"
             /\ inbox'[w] = Append(inbox[w], AckMsg)
             /\ \A t \in expected[w] :
                   (Healthy(t) /\ Registered(t))
                      => Has(inbox'[t], UpdateMsg(content[w], DevOf[w]))]_vars

\* C6 (as claimed): the handling of every clipboard_update from a healthy
\* sender ends with exactly one acknowledgment added to its messages, whether
\* or not the gate accepted the text.
C6_AckAlways ==
    [][\A w \in Conns :
          /\ (pc[w] \in UpdStates /\ pc'[w] \notin UpdStates /\ Healthy(w))
               => inbox'[w] = Append(inbox[w], AckMsg)
          /\ (pc[w] \in UpdStates /\ pc'[w] \in UpdStates)
               => ~Has(SubSeq(inbox'[w], Len(inbox[w]) + 1, Len(inbox'[w])), AckMsg)]_vars

\* C7 (as claimed): when a monitor tick that accepted a local value ends,
\* every connection that was registered when it set last_clipboard, and is
\* still registered and healthy, got the update with source "desktop".
C7_LocalFanOut ==
    [][(mon.pc = "loop" /\ mon'.pc = "read") =>
         \A t \in mon.expected :
            (Healthy(t) /\ Registered(t))
               => Has(inbox'[t], UpdateMsg(mon.content, DESKTOP))]_vars

\* C8: unregistering never raises, also for an id that is absent (then the
\* registry is unchanged), removes at most the entry of that id and leaves
\* every other entry as it was; doing it twice is the same as doing it once.
C8_UnregisterTotal ==
    [][/\ \A w \in Conns : pc'[w] # "crashed"
       /\ \A k \in Ids :
             LET once == DictPop(connected_clients, k) IN
             /\ ~once.raised
             /\ DictPop(once.dict, k) = once
             /\ k \notin DictKeys(connected_clients) => once.dict = connected_clients
       /\ Len(connected_clients') < Len(connected_clients) =>
             \E k \in DictKeys(connected_clients) :
                /\ DictKeys(connected_clients') = DictKeys(connected_clients) \ {k}
                /\ \A j \in DictKeys(connected_clients') :
                      DictGet(connected_clients', j) = DictGet(connected_clients, j)
       /\ \A w \in Conns :
             (InSession(w) /\ pc'[w] \in Ended
                /\ DevOf[w] \notin DictKeys(connected_clients))
               => connected_clients' = connected_clients]_vars

\* the monitor evicted the id of a session that has yet to run its cleanup
C8_Witness ==
    \E w \in Conns :
        /\ pc[w] = "receiving" /\ ~peerOK[w]
        /\ DevOf[w] \notin DictKeys(connected_clients)
        /\ connected_clients # <<>>

\* C9 (as claimed): no payload, well-formed or not, ends the session of the
\* peer that sent it: after the payload is received the session is still
\* inside its loop and registered as before (a payload that is not a message
\* object goes on to the plain-text gate).
C9_MalformedKeepsSession ==
    [][\A w \in Conns :
          (pc[w] = "receiving" /\ budget'.msgs < budget.msgs /\ pc'[w] # pc[w]) =>
             /\ InSession(w)'
             /\ exitCause'[w] = "none"
             /\ Registered(w) => Registered(w)']_vars

\* C10 (as claimed): whichever way a session ends, its id is unregistered
\* and the "Disconnected" notification is emitted.
C10_AlwaysCleanupOriginal ==
    [][\A w \in Conns :
          (InSession(w) /\ ~InSession(w)') =>
             /\ DevOf[w] \notin DictKeys(connected_clients')
             /\ "Disconnected" \in statusLog'[w]]_vars

\* C10 (amended): whichever way a session ends, its id is unregistered; the
\* "Disconnected" notification is emitted when the window exists at that
\* time, and always when the session's "Connected" notification was emitted.
C10_AlwaysCleanup ==
    [][\A w \in Conns :
          (InSession(w) /\ ~InSession(w)') =>
             /\ pc'[w] = "closed"
             /\ DevOf[w] \notin DictKeys(connected_clients')
             /\ appInstance => "Disconnected" \in statusLog'[w]
             /\ "Connected" \in statusLog[w] => "Disconnected" \in statusLog'[w]]_vars

C10_Witness ==
    \E w, v \in Conns :
        /\ pc[w] = "closed" /\ exitCause[w] = "WebSocketDisconnect"
        /\ statusLog[w] = {"Connected", "Disconnected"}
        /\ pc[v] = "closed" /\ exitCause[v] # "WebSocketDisconnect"
        /\ "Disconnected" \in statusLog[v]

\* the loop of iterator it has been through at least one entry
Started(it) == it.len < it.used

\* C11 (as claimed): a loop over the registry that has been through an
\* entry does not fail when the registry changed meanwhile: a session in its
\* broadcast loop is never ended by the RuntimeError of the dict iterator,
\* and a monitor loop only ends when its iterator is exhausted.
C11_IterationTolerant ==
    [][/\ \A w \in Conns :
            (pc[w] = "bcast" /\ Started(iter[w]) /\ pc'[w] \in Ended)
               => exitCause'[w] # "RuntimeError"
       /\ (mon.pc = "loop" /\ Started(mon.it) /\ mon'.pc = "read")
            => IterNext(connected_clients, mon.it).out = "StopIteration"]_vars

\* C12 (as claimed): the gate and the write of last_clipboard are one atomic
\* step: whenever a handler or the monitor writes last_clipboard, the value
\* it writes is still new at that moment.
C12_CheckThenSetAtomic ==
    [][/\ \A w \in Conns :
            (pc[w] \in {"upd_set", "fb_set", "raw_set"} /\ pc'[w] # pc[w])
               => IsNew(content[w], last_clipboard)
       /\ (mon.pc = "set" /\ mon'.pc = "loop")
            => IsNew(mon.content, last_clipboard)]_vars

\* C13 (as claimed): when the handling of an untagged JSON object whose text
\* passed the gate ends, last_clipboard is the text, the sender got the
\* acknowledgment and every other registered healthy peer got a
\* clipboard_update with the text and the sender's id as source.
C13_FallbackPropagated ==
    [][\A w \in Conns :
          (pc[w] = "fb_set" /\ pc'[w] # "fb_set" /\ Healthy(w)) =>
             /\ last_clipboard' = content[w]
             /\ Has(inbox'[w], AckMsg)
             /\ \A t \in Conns :
                   (Registered(t) /\ Healthy(t) /\ DevOf[t] # DevOf[w])
                      => Has(inbox'[t], UpdateMsg(content[w], DevOf[w]))]_vars

\* C14 (as claimed): a connect request for an id that is already registered
\* goes on to accept whether or not closing the prior connection succeeds.
C14_RegistrationSucceeds ==
    [][\A w \in Conns :
          (pc[w] = "close_prev" /\ pc'[w] # "close_prev")
             => pc'[w] = "await_accept"]_vars

\* C15 (as claimed): a failure of pyperclip.copy while a peer's accepted
\* update is applied does not end the sender's session: the handler goes on
\* to set last_clipboard and to broadcast, and the sender stays registered.
C15_BackendFailureNotFatal ==
    [][\A w \in Conns :
          (pc[w] = "upd_copy" /\ pc'[w] # "upd_copy")
             => /\ pc'[w] = "upd_set"
                /\ Registered(w) => Registered(w)']_vars

PairingRequest == JsonObject("pairing_request", FALSE, "")

\* C16: a pairing_request received from a registered healthy peer is answered
\* with the pairing_response on the same socket, the session stays in its
\* receive loop, and the step changes neither last_clipboard, the clipboard
\* nor the registry and sends nothing to any other socket; and a
\* pairing_response is only ever sent in such a step.
C16_PairingStateless ==
    [][\A w \in Conns :
          /\ Receive(w, PairingRequest) =>
                /\ inbox'[w] = Append(inbox[w], PairingResponse)
                /\ pc'[w] = "receiving"
                /\ Registered(w) => Registered(w)'
          /\ (Len(inbox'[w]) > Len(inbox[w])
                /\ inbox'[w][Len(inbox'[w])] = PairingResponse) =>
                /\ pc[w] = "receiving" /\ pc'[w] = "receiving"
                /\ \A t \in Conns \ {w} : inbox'[t] = inbox[t]
                /\ last_clipboard' = last_clipboard
                /\ osClip' = osClip
                /\ connected_clients' = connected_clients]_vars

C16_Witness ==
    \E w, t \in Conns :
        /\ DevOf[t] # DevOf[w] /\ Registered(t) /\ Healthy(t)
        /\ Registered(w) /\ pc[w] = "receiving"
        /\ Has(inbox[w], PairingResponse)
        /\ last_clipboard # ""

\* the monitor thread keeps being scheduled and asyncio.sleep(1) returns
MonitorStep == MonRead \/ MonCheck \/ MonSet \/ MonStep \/ MonEvict

SpecLive == Init /\ [][Next]_vars /\ WF_vars(MonitorStep)

\* the tick at hand has hit an error: a failed send, or an iterator that
\* will raise at its next step
TickFailing ==
    \/ mon.pc = "evict"
    \/ mon.pc = "loop" /\ IterNext(connected_clients, mon.it).out = "RuntimeError"

\* the positions of monitor() inside its `while True`
MonPositions == {"read", "check", "set", "loop", "evict"}

\* C17: no step takes the monitor out of its loop, the monitor starts a tick
\* infinitely often, and a tick in which a send or the registry iteration
\* raised is followed by the start of the next tick.
C17_PollerKeepsTicking ==
    /\ [][mon'.pc \in MonPositions]_vars
    /\ []<>(mon.pc = "read")
    /\ TickFailing ~> (mon.pc = "read")

\* a send failed in this tick, its eviction changed the dict, and the
\* iterator is about to raise
C17_Witness ==
    /\ mon.pc = "loop" /\ mon.failed # {}
    /\ IterNext(connected_clients, mon.it).out = "RuntimeError"

\* C18 (as claimed): the cleanup of a session removes only that session's
\* own connection: every other connection that is the registry's entry for
\* its id before the cleanup still is after it.
C18_CleanupOwnOnly ==
    [][\A w \in Conns :
          (InSession(w) /\ pc'[w] \in Ended) =>
             \A v \in Conns \ {w} : Registered(v) => Registered(v)']_vars

\* C19 (as claimed): as long as the desktop user has copied nothing, every
\* value on the clipboard was written for a peer, and no peer is sent a
\* clipboard_update with source "desktop".
C19_NoPollerEcho ==
    budget.local = MaxLocal =>
        \A w \in Conns : \A i \in 1..Len(inbox[w]) : inbox[w][i].source # DESKTOP

\* three devices have connected one after the other and are in their
\* receive loops; from here they send clipboard updates
Trio == {"w1", "w3", "w4"}

InitConverge ==
    /\ connected_clients = <<[id |-> "d1", ws |-> "w1"], [id |-> "d2", ws |-> "w3"],
                             [id |-> "d3", ws |-> "w4"]>>
    /\ last_clipboard = ""
    /\ osClip = ""
    /\ appInstance = TRUE
    /\ application_state = [w \in Conns |-> IF w \in Trio THEN "CONNECTED" ELSE "CONNECTING"]
    /\ peerOK = [w \in Conns |-> TRUE]
    /\ pc = [w \in Conns |-> IF w \in Trio THEN "receiving" ELSE "idle"]
    /\ running = NoTask
    /\ content = [w \in Conns |-> ""]
    /\ iter = [w \in Conns |-> NoIter]
    /\ expected = [w \in Conns |-> {}]
    /\ failed = [w \in Conns |-> {}]
    /\ mon = MonIdle
    /\ inbox = [w \in Conns |-> <<>>]
    /\ statusLog = [w \in Conns |-> IF w \in Trio THEN {"Connected"} ELSE {}]
    /\ exitCause = [w \in Conns |-> "none"]
    /\ budget = [msgs |-> MaxUpdates, local |-> 0, drops |-> 0, events |-> MaxUpdates]
    /\ peers = Trio

NextConverge ==
    \/ \E w \in Conns : \E t \in Texts :
           Receive(w, JsonObject("clipboard_update", TRUE, t))
    \/ \E w \in Conns : Gate(w)
    \/ \E w \in Conns : Copy(w)
    \/ \E w \in Conns : SetLast(w)
    \/ \E w \in Conns : BcastNext(w)
    \/ MonRead
    \/ MonCheck
    \/ MonSet
    \/ MonStep

SpecConverge == InitConverge /\ [][NextConverge]_vars

\* nothing is under way, nothing failed, and only peers' updates were sent
Settled ==
    /\ \A w \in peers : pc[w] = "receiving" /\ Healthy(w) /\ Registered(w)
    /\ mon.pc = "read" /\ osClip = last_clipboard
    /\ \A w \in Conns : \A i \in 1..Len(inbox[w]) : inbox[w][i].source # DESKTOP

\* C20 (as claimed): once the handling of the peers' updates is over without
\* a failure, the last clipboard_update delivered to a peer that sent none
\* itself carries last_clipboard.
C20_Convergence ==
    Settled =>
        \A t \in peers :
            (~Has(inbox[t], AckMsg) /\ Updates(inbox[t]) # <<>>)
               => Updates(inbox[t])[Len(Updates(inbox[t]))].text = last_clipboard

====
